---- MODULE Spec2Model ----
(***************************************************************************)
(* Session and credential core of lost-at-cornell-backend: the users       *)
(* table (db.py), the data access helpers (users_dao.py) and the           *)
(* authentication routes (app.py).                                         *)
(*                                                                         *)
(* Every route handler is written as three steps, split where the handler  *)
(* talks to the store: Check (parse the request, SELECT, work on the       *)
(* loaded object in memory), Commit (db.session.commit(): the INSERT,      *)
(* UPDATE or DELETE) and Respond (building the response; attributes are    *)
(* expired by the commit, so reading them re-SELECTs the row).             *)
(*   Spec     serves one request at a time: an action is a whole handler.  *)
(*   ConcSpec serves requests on NumThreads threads whose steps interleave *)
(*            (app.run starts the threaded development server).            *)
(*   ExtractSpec applies extract_token to every Authorization header of  *)
(*            up to MaxLen items.                                          *)
(*   DomainSpec serves, one request at a time, the routes of posts and     *)
(*            conversations that sit on top of the session check.          *)
(* The response of a request stays in `last` until the client has received *)
(* it; the server takes its next step after that.                          *)
(*                                                                         *)
(* Time is counted in days. A token is the hex digest of 64 random bytes   *)
(* (db.py:61); the model draws tokens from a counter, i.e. it assumes that *)
(* os.urandom never repeats. bcrypt is an injective salted function.       *)
(* Profile pictures (the pfp field of edit_user) are left out.             *)
(***************************************************************************)
EXTENDS Integers, Sequences, FiniteSets, TLC

\* ------------------------------------------------------------- bounds
MaxUsers == 2
MaxTime == 1
MaxTokens == 6
MaxSalt == 1
NumThreads == 2
MaxRequests == 3
MaxLen == 4
MaxObjects == 2
MaxConvos == 1

\* ------------------------------------------------- program constants
\* datetime.timedelta(days=1)
SESSION_DAYS == 1
\* failure_response(message, code=404)
DEFAULT_FAILURE_CODE == 404
\* success_response(data, code=200); also what Flask sends for a bare string
DEFAULT_SUCCESS_CODE == 200

\* ------------------------------------------------------ input values
None == "None"
Usernames == {"alice", "bob"}
Emails == {"a@cornell.edu", "b@cornell.edu"}
Passwords == {"pw1", "pw2"}
Names == {"n"}
Salts == 1..MaxSalt
Threads == 1..NumThreads
\* Python's None where an id is expected (Query.first() found no row)
NoUser == 0
\* no token: an attribute not yet set, a response without tokens; as a header
\* item, a hex string that no generator call has returned
NoToken == NoUser

VARIABLES users, now, nextToken, hist, last, th, started, call, dom

vars == <<users, now, nextToken, hist, last, th, started, call, dom>>

\* ---------------------------------------------------------- helpers
Max(S) == CHOOSE x \in S : \A y \in S : y <= x
Min(S) == CHOOSE x \in S : \A y \in S : x <= y

\* A header value is a sequence of items: the word Bearer, a blank, or the
\* 40 hex digits of a token (which never contain the word Bearer).
Word(w) == [w |-> w, t |-> 0]
Hex(t) == [w |-> "hex", t |-> t]

\* the hex string of a token, as it travels in a header
TokStr(t) == <<Hex(t)>>

\* request.headers.get("Authorization")
NoHeader == [present |-> FALSE, text |-> <<>>]
Header(text) == [present |-> TRUE, text |-> text]

\* ------------------------------------------------------- bcrypt
\* bcrypt.hashpw(password, salt): the digest carries its salt
hashpw(password, salt) == [salt |-> salt, hash |-> <<"bcrypt", salt, password>>]

\* bcrypt.checkpw(password, digest): rehash with the digest's salt and compare
checkpw(password, digest) == hashpw(password, digest.salt) = digest

\* ------------------------------------------------------- db.py: User
\* renew_session that keeps the session token it had
renew_session_same_session(row, t1, t2, clock) ==
    [row EXCEPT !.refresh_token = t2,
                !.session_expiration = clock + SESSION_DAYS]

\* renew_session that keeps the refresh token it had
renew_session_same_refresh(row, t1, t2, clock) ==
    [row EXCEPT !.session_token = t1,
                !.session_expiration = clock + SESSION_DAYS]

\* renew_session that uses one generator call for both tokens
renew_session_one_token(row, t1, t2, clock) ==
    [row EXCEPT !.session_token = t1,
                !.refresh_token = t1,
                !.session_expiration = clock + SESSION_DAYS]

\* renew_session whose sessions last a day longer
renew_session_long(row, t1, t2, clock) ==
    [row EXCEPT !.session_token = t1,
                !.refresh_token = t2,
                !.session_expiration = clock + SESSION_DAYS + 1]

\* User.renew_session: two generator calls and a new expiration
renew_session(row, t1, t2, clock) ==
    [row EXCEPT !.session_token = t1,
                !.refresh_token = t2,
                !.session_expiration = clock + SESSION_DAYS]

\* User.__init__
UserInit(body, salt, t1, t2, clock) ==
    renew_session([name |-> body.name,
                   username |-> body.username,
                   email |-> body.email,
                   password_digest |-> hashpw(body.password, salt),
                   session_token |-> NoToken,
                   refresh_token |-> NoToken,
                   session_expiration |-> 0], t1, t2, clock)

\* verify_password that compares against the stored salt only
verify_password_salt_only(row, password) ==
    hashpw(password, row.password_digest.salt).salt = row.password_digest.salt

\* User.verify_password
verify_password(row, password) == checkpw(password, row.password_digest)

\* verify_session_token that still accepts at the expiration instant
verify_session_token_inclusive(row, tok, clock) ==
    tok = TokStr(row.session_token) /\ clock <= row.session_expiration

\* User.verify_session_token; the presented token is a header string
verify_session_token(row, tok, clock) ==
    tok = TokStr(row.session_token) /\ clock < row.session_expiration

\* ------------------------------------------------------- users_dao.py
\* Query.first(): the matching row with the lowest id, or None
First(S) == IF S = {} THEN NoUser ELSE Min(S)

get_user_by_username(u, username) ==
    First({i \in DOMAIN u : u[i].username = username})

get_user_by_session_token(u, tok) ==
    First({i \in DOMAIN u : TokStr(u[i].session_token) = tok})

\* get_user_by_refresh_token without its filter: first() of the whole table
get_user_by_refresh_token_any(u, tok) == First(DOMAIN u)

get_user_by_refresh_token(u, tok) ==
    First({i \in DOMAIN u : TokStr(u[i].refresh_token) = tok})

\* ------------------------------------------------------- app.py: helpers
\* str.replace("Bearer", ""): drop every occurrence of the scheme word
RECURSIVE RemoveBearer(_)
RemoveBearer(h) ==
    IF h = <<>> THEN <<>>
    ELSE IF Head(h) = Word("Bearer") THEN RemoveBearer(Tail(h))
    ELSE <<Head(h)>> \o RemoveBearer(Tail(h))

\* str.strip(): drop leading and trailing blanks
RECURSIVE LStrip(_)
LStrip(h) == IF h # <<>> /\ Head(h) = Word(" ") THEN LStrip(Tail(h)) ELSE h

RECURSIVE RStrip(_)
RStrip(h) ==
    IF h # <<>> /\ h[Len(h)] = Word(" ") THEN RStrip(SubSeq(h, 1, Len(h) - 1)) ELSE h

Strip(h) == RStrip(LStrip(h))

\* a response: status, the "error" member, the "message" member, the token
\* triple of the authentication routes, the user a serialize() is about
Response(status, error, message, st, rt, exp, uid) ==
    [status |-> status, error |-> error, message |-> message,
     session_token |-> st, refresh_token |-> rt, session_expiration |-> exp,
     uid |-> uid]

success_response(message, st, rt, exp, uid, code) ==
    Response(code, "", message, st, rt, exp, uid)

failure_response(message, code) ==
    Response(code, message, "", NoToken, NoToken, 0, NoUser)

\* a handler returning the bare json string of extract_token: Flask sends it
\* with its default status
BareString(message) ==
    Response(DEFAULT_SUCCESS_CODE, message, "", NoToken, NoToken, 0, NoUser)

\* an exception no handler catches: Flask answers 500
Unhandled(exception) ==
    Response(500, exception, "", NoToken, NoToken, 0, NoUser)

\* extract_token without the strip()
extract_token_no_strip(header) ==
    IF ~header.present
    THEN [ok |-> FALSE, tok |-> <<>>, resp |-> BareString("Missing Authorization header")]
    ELSE LET bearer_token == RemoveBearer(header.text)
         IN IF bearer_token = <<>>
            THEN [ok |-> FALSE, tok |-> <<>>,
                  resp |-> BareString("Invalid Authorization header")]
            ELSE [ok |-> TRUE, tok |-> bearer_token, resp |-> BareString("")]

\* extract_token: [ok, tok] or [ok, resp]
extract_token(header) ==
    IF ~header.present
    THEN [ok |-> FALSE, tok |-> <<>>, resp |-> BareString("Missing Authorization header")]
    ELSE LET bearer_token == Strip(RemoveBearer(header.text))
         IN IF bearer_token = <<>>
            THEN [ok |-> FALSE, tok |-> <<>>,
                  resp |-> BareString("Invalid Authorization header")]
            ELSE [ok |-> TRUE, tok |-> bearer_token, resp |-> BareString("")]

\* the guard every protected route repeats (app.py:104-105): the user of the
\* session token, or NoUser when the route answers Invalid session token
Authenticate(u, tok, clock) ==
    LET user == get_user_by_session_token(u, tok)
    IN IF user = NoUser \/ ~verify_session_token(u[user], tok, clock)
       THEN NoUser ELSE user

\* ------------------------------------------------------- the store
\* INTEGER PRIMARY KEY of SQLite: one more than the largest id in the table
NewId(u) == IF DOMAIN u = {} THEN 1 ELSE Max(DOMAIN u) + 1

\* a table whose only UNIQUE constraint is the one of username
UniqueViolation_username_only(u, i, row) ==
    \E j \in DOMAIN u \ {i} : u[j].username = row.username

\* the UNIQUE constraints of username and email, seen by row i (or a new row)
UniqueViolation(u, i, row) ==
    \E j \in DOMAIN u \ {i} :
        u[j].username = row.username \/ u[j].email = row.email

Columns == {"name", "username", "email", "password_digest",
            "session_token", "session_expiration", "refresh_token"}


Insert(u, row) == [i \in DOMAIN u \cup {NewId(u)} |->
                     IF i \in DOMAIN u THEN u[i] ELSE row]

\* a DELETE that removes no row
Delete_keeps_row(u, i) == [j \in DOMAIN u |-> u[j]]

Delete(u, i) == [j \in DOMAIN u \ {i} |-> u[j]]

\* history, per user id: the plaintext password last set, the session token
\* for which the stored session_expiration was written, the tokens the
\* registration answered with, and whether a logout ended the stored session
NoHist == [password |-> None, exp_token |-> NoToken, reg_token |-> NoToken,
           reg_refresh |-> NoToken, logged_out |-> FALSE]

\* ------------------------------------------------------- request state
\* a request in flight: the route, where it stands, the token it extracted,
\* the row it loaded (uid, loaded), the object as changed in memory (obj),
\* the plaintext password it sets, and its response once it has one
NoRow == [name |-> None, username |-> None, email |-> None,
          password_digest |-> hashpw(None, 0),
          session_token |-> NoToken, session_expiration |-> 0,
          refresh_token |-> NoToken]
Idle == [op |-> "idle", pc |-> "idle", tok |-> <<>>, uid |-> NoUser,
         loaded |-> NoRow, obj |-> NoRow, password |-> None,
         resp |-> BareString("")]

Done(op, resp) == [Idle EXCEPT !.op = op, !.pc = "done", !.resp = resp]

Pending(op, tok, uid, loaded, obj, password) ==
    [Idle EXCEPT !.op = op, !.pc = "commit", !.tok = tok, !.uid = uid,
                 !.loaded = loaded, !.obj = obj, !.password = password]

\* the unit of work: the columns whose value differs from the loaded one.
\* datetime.now() counts microseconds, so the expiration a request assigns
\* differs from the loaded one even where the day count of the model agrees.
Dirty(l) ==
    {c \in Columns : l.obj[c] # l.loaded[c]}
    \cup (IF l.op \in {"login", "renew", "logout"}
          THEN {"session_expiration"} ELSE {})

\* UPDATE users SET <dirty columns> WHERE id = l.uid
Update(u, l) ==
    [u EXCEPT ![l.uid] = [c \in Columns |->
                            IF c \in Dirty(l) THEN l.obj[c] ELSE u[l.uid][c]]]

TokenResponse(row, uid, code) ==
    success_response("", row.session_token, row.refresh_token,
                     row.session_expiration, uid, code)

\* ------------------------------------------------------- Check steps
\* register_user without the lookup of create_user
register_user_check_no_lookup(u, body, salt, t1, t2, clock) ==
    IF body.name = None \/ body.username = None
       \/ body.email = None \/ body.password = None
    THEN Done("register", failure_response("Invalid body", 400))
    ELSE Pending("register", <<>>, NoUser, NoRow,
                 UserInit(body, salt, t1, t2, clock), body.password)

\* register_user up to the commit inside users_dao.create_user
register_user_check(u, body, salt, t1, t2, clock) ==
    IF body.name = None \/ body.username = None
       \/ body.email = None \/ body.password = None
    THEN Done("register", failure_response("Invalid body", 400))
    ELSE IF get_user_by_username(u, body.username) # NoUser
    THEN Done("register", failure_response("User already exists", 400))
    ELSE Pending("register", <<>>, NoUser, NoRow,
                 UserInit(body, salt, t1, t2, clock), body.password)

\* users_dao.verify_credentials: [success, user]
verify_credentials(u, username, password) ==
    LET possible_user == get_user_by_username(u, username)
    IN IF possible_user = NoUser
       THEN [success |-> FALSE, user |-> NoUser]
       ELSE [success |-> verify_password(u[possible_user], password),
             user |-> possible_user]

\* login up to its commit
login_check(u, body, t1, t2, clock) ==
    IF body.username = None \/ body.password = None
    THEN Done("login", failure_response("Invalid body", 400))
    ELSE LET v == verify_credentials(u, body.username, body.password)
         IN IF ~v.success
            THEN Done("login", failure_response("Invalid credentials", 400))
            ELSE Pending("login", <<>>, v.user, u[v.user],
                         renew_session(u[v.user], t1, t2, clock), None)

\* logout that tells an expired session from an unknown token
logout_check_expired_message(u, header, clock) ==
    LET e == extract_token(header)
    IN IF ~e.ok THEN Done("logout", e.resp)
       ELSE LET found == get_user_by_session_token(u, e.tok)
                user == Authenticate(u, e.tok, clock)
            IN IF found = NoUser
               THEN Done("logout", failure_response("Invalid session token",
                                                    DEFAULT_FAILURE_CODE))
               ELSE IF user = NoUser
               THEN Done("logout", failure_response("Session expired", 401))
               ELSE Pending("logout", e.tok, user, u[user],
                            [u[user] EXCEPT !.session_expiration = clock], None)

\* logout that lets the session run for another day
logout_check_grace(u, header, clock) ==
    LET e == extract_token(header)
    IN IF ~e.ok THEN Done("logout", e.resp)
       ELSE LET user == Authenticate(u, e.tok, clock)
            IN IF user = NoUser
               THEN Done("logout", failure_response("Invalid session token",
                                                    DEFAULT_FAILURE_CODE))
               ELSE Pending("logout", e.tok, user, u[user],
                            [u[user] EXCEPT !.session_expiration =
                                                clock + SESSION_DAYS], None)

\* logout that rotates the refresh token as well
logout_check_rotating(u, header, clock) ==
    LET e == extract_token(header)
    IN IF ~e.ok THEN Done("logout", e.resp)
       ELSE LET user == Authenticate(u, e.tok, clock)
            IN IF user = NoUser
               THEN Done("logout", failure_response("Invalid session token",
                                                    DEFAULT_FAILURE_CODE))
               ELSE Pending("logout", e.tok, user, u[user],
                            [u[user] EXCEPT !.session_expiration = clock,
                                            !.refresh_token = NoToken], None)

\* logout up to its commit
logout_check(u, header, clock) ==
    LET e == extract_token(header)
    IN IF ~e.ok THEN Done("logout", e.resp)
       ELSE LET user == Authenticate(u, e.tok, clock)
            IN IF user = NoUser
               THEN Done("logout", failure_response("Invalid session token",
                                                    DEFAULT_FAILURE_CODE))
               ELSE Pending("logout", e.tok, user, u[user],
                            [u[user] EXCEPT !.session_expiration = clock], None)

\* renew_session (the route) that looks the user up by the session token
renew_check_by_session_token(u, header, t1, t2, clock) ==
    LET e == extract_token(header)
    IN IF ~e.ok THEN Done("renew", e.resp)
       ELSE LET possible_user == get_user_by_session_token(u, e.tok)
            IN IF possible_user = NoUser
               THEN Done("renew", failure_response("Invalid refresh token", 400))
               ELSE Pending("renew", e.tok, possible_user, u[possible_user],
                            renew_session(u[possible_user], t1, t2, clock), None)

\* renew_session (the route) that renews an expired session only
renew_check_requires_expired(u, header, t1, t2, clock) ==
    LET e == extract_token(header)
    IN IF ~e.ok THEN Done("renew", e.resp)
       ELSE LET possible_user == get_user_by_refresh_token(u, e.tok)
            IN IF possible_user = NoUser
               THEN Done("renew", failure_response("Invalid refresh token", 400))
               ELSE IF clock < u[possible_user].session_expiration
               THEN Done("renew", failure_response("Session still active", 400))
               ELSE Pending("renew", e.tok, possible_user, u[possible_user],
                            renew_session(u[possible_user], t1, t2, clock), None)

\* renew_session (the route) up to the commit inside users_dao.renew_session
renew_check(u, header, t1, t2, clock) ==
    LET e == extract_token(header)
    IN IF ~e.ok THEN Done("renew", e.resp)
       ELSE LET possible_user == get_user_by_refresh_token(u, e.tok)
            IN IF possible_user = NoUser
               THEN Done("renew", failure_response("Invalid refresh token", 400))
               ELSE Pending("renew", e.tok, possible_user, u[possible_user],
                            renew_session(u[possible_user], t1, t2, clock), None)

\* edit_user that hashes the password field whether or not the body has one
edit_user_check_always_hashes(u, header, body, salt, clock) ==
    LET e == extract_token(header)
    IN IF ~e.ok THEN Done("edit", e.resp)
       ELSE LET user == Authenticate(u, e.tok, clock)
            IN IF user = NoUser
               THEN Done("edit", failure_response("Invalid session token",
                                                  DEFAULT_FAILURE_CODE))
               ELSE Pending("edit", e.tok, user, u[user],
                      [u[user] EXCEPT
                         !.name = IF body.name # None THEN body.name ELSE @,
                         !.username = IF body.username # None
                                      THEN body.username ELSE @,
                         !.email = IF body.email # None THEN body.email ELSE @,
                         !.password_digest = hashpw(body.password, salt)],
                      body.password)

\* edit_user up to its commit; a field that is None is left alone
edit_user_check(u, header, body, salt, clock) ==
    LET e == extract_token(header)
    IN IF ~e.ok THEN Done("edit", e.resp)
       ELSE LET user == Authenticate(u, e.tok, clock)
            IN IF user = NoUser
               THEN Done("edit", failure_response("Invalid session token",
                                                  DEFAULT_FAILURE_CODE))
               ELSE Pending("edit", e.tok, user, u[user],
                      [u[user] EXCEPT
                         !.name = IF body.name # None THEN body.name ELSE @,
                         !.username = IF body.username # None
                                      THEN body.username ELSE @,
                         !.email = IF body.email # None THEN body.email ELSE @,
                         !.password_digest =
                             IF body.password # None
                             THEN hashpw(body.password, salt) ELSE @],
                      body.password)

\* delete_user up to its commit
delete_user_check(u, header, clock) ==
    LET e == extract_token(header)
    IN IF ~e.ok THEN Done("delete", e.resp)
       ELSE LET user == Authenticate(u, e.tok, clock)
            IN IF user = NoUser
               THEN Done("delete", failure_response("Invalid session token",
                                                    DEFAULT_FAILURE_CODE))
               ELSE Pending("delete", e.tok, user, u[user], u[user], None)

\* ------------------------------------------------------- Commit step
Outcome(u, h, l) == [users |-> u, hist |-> h, loc |-> l]

\* the flush of an UPDATE of row l.uid and what it leaves in the history
Flush(u, h, l) ==
    LET d == Dirty(l)
    IN [users |-> Update(u, l),
        hist |-> [h EXCEPT ![l.uid] =
                    [password |-> IF "password_digest" \in d
                                  THEN l.password ELSE @.password,
                     exp_token |-> IF "session_expiration" \in d
                                   THEN l.obj.session_token ELSE @.exp_token,
                     reg_token |-> @.reg_token,
                     reg_refresh |-> @.reg_refresh,
                     logged_out |-> IF l.op = "logout" THEN TRUE
                                    ELSE IF "session_token" \in d THEN FALSE
                                    ELSE @.logged_out]]]

\* db.session.commit() of a request that stands before it
Commit(u, h, l) ==
    IF l.op = "register"
    THEN IF UniqueViolation(u, NoUser, l.obj)
         THEN Outcome(u, h, Done(l.op, Unhandled("IntegrityError")))
         ELSE Outcome(Insert(u, l.obj),
                      [h EXCEPT ![NewId(u)] =
                          [password |-> l.password,
                           exp_token |-> l.obj.session_token,
                           reg_token |-> NoToken,
                           reg_refresh |-> NoToken,
                           logged_out |-> FALSE]],
                      [l EXCEPT !.pc = "respond", !.uid = NewId(u)])
    ELSE IF l.op = "delete"
    THEN Outcome(IF l.uid \in DOMAIN u THEN Delete(u, l.uid) ELSE u,
                 [h EXCEPT ![l.uid] = NoHist],
                 Done(l.op, success_response("", NoToken, NoToken, 0, l.uid,
                                             DEFAULT_SUCCESS_CODE)))
    ELSE IF Dirty(l) = {}
    THEN Outcome(u, h, [l EXCEPT !.pc = "respond"])
    ELSE IF l.uid \notin DOMAIN u
    THEN Outcome(u, h, Done(l.op,
                    IF l.op = "renew"
                    THEN failure_response("Invalid refresh token", 400)
                    ELSE Unhandled("StaleDataError")))
    ELSE IF UniqueViolation(u, l.uid, Update(u, l)[l.uid])
    THEN Outcome(u, h, Done(l.op, Unhandled("IntegrityError")))
    ELSE LET f == Flush(u, h, l)
         IN Outcome(f.users, f.hist,
                    IF l.op = "logout"
                    THEN Done(l.op, success_response("You have been logged out",
                                        NoToken, NoToken, 0, l.uid,
                                        DEFAULT_SUCCESS_CODE))
                    ELSE [l EXCEPT !.pc = "respond"])

\* ------------------------------------------------------- Respond step
\* the attributes are expired by the commit: reading them loads the row again
Respond(u, l) ==
    IF l.uid \notin DOMAIN u
    THEN Done(l.op, Unhandled("ObjectDeletedError"))
    ELSE IF l.op = "register"
    THEN Done(l.op, TokenResponse(u[l.uid], l.uid, 201))
    ELSE IF l.op \in {"login", "renew"}
    THEN Done(l.op, TokenResponse(u[l.uid], l.uid, DEFAULT_SUCCESS_CODE))
    ELSE Done(l.op, success_response("", NoToken, NoToken, 0, l.uid,
                                     DEFAULT_SUCCESS_CODE))

\* the history of a response: the tokens a registration answered with
Answered(h, l) ==
    IF l.op = "register" /\ l.resp.status = 201
    THEN [h EXCEPT ![l.resp.uid].reg_token = l.resp.session_token,
                   ![l.resp.uid].reg_refresh = l.resp.refresh_token]
    ELSE h

\* a whole handler, from the state its Check step left
Serve(u, h, l) ==
    LET c == IF l.pc = "commit" THEN Commit(u, h, l) ELSE Outcome(u, h, l)
        r == IF c.loc.pc = "respond" THEN Respond(c.users, c.loc) ELSE c.loc
    IN Outcome(c.users, Answered(c.hist, r), r)

\* ------------------------------------------------------- requests
Opt(S) == S \cup {None}

Bodies == [name : Opt(Names), username : Opt(Usernames),
           email : Opt(Emails), password : Opt(Passwords)]

Missing(body) == {f \in DOMAIN body : body[f] = None}

SampleBody == [name |-> "n", username |-> "alice",
               email |-> "a@cornell.edu", password |-> "pw1"]

\* register_user is sent every complete body and, for each field, a body
\* that lacks it
RegisterBodies == {body \in Bodies : Missing(body) = {}}
                  \cup {[SampleBody EXCEPT ![f] = None] : f \in DOMAIN SampleBody}

LoginBodies == [username : Opt(Usernames), password : Opt(Passwords)]

\* edit_user takes any subset of the fields (the name is not sent)
EditBodies == [name : {None}, username : Opt(Usernames),
               email : Opt(Emails), password : Opt(Passwords)]

\* the tokens a client can present: every token issued so far, and one that
\* was never issued
Presentable == NoToken..(nextToken - 1)

\* Authorization headers: none, the scheme alone, the usual form, and a
\* token without the scheme
Headers ==
    {NoHeader, Header(<<Word("Bearer"), Word(" ")>>)}
    \cup {Header(<<Word("Bearer"), Word(" "), Hex(t)>>) : t \in Presentable}
    \cup {Header(TokStr(t)) : t \in Presentable}

\* edit_user reads the fields of its body only after the session token has
\* been accepted: for a header that is turned away one body stands for all
EditBodiesFor(header) ==
    LET e == extract_token(header)
    IN IF e.ok /\ Authenticate(users, e.tok, now) # NoUser
       THEN EditBodies
       ELSE {[name |-> None, username |-> None, email |-> None, password |-> None]}

\* the generator can be called twice more / the table can take the new row
CanIssue == nextToken + 1 <= MaxTokens
CanInsert(u) == NewId(u) <= MaxUsers

Ids == 1..MaxUsers

\* no response is on its way to a client
NoResponse == [op |-> "idle", resp |-> BareString("")]
Quiet == last.op = "idle"

\* no call of extract_token is under way
NoCall == [pc |-> "none", header |-> NoHeader, ret |-> extract_token(NoHeader)]

\* the tables of posts, assets and conversations and the S3 bucket, empty
NoDomain == [bucket |-> 0, assets |-> 0, posts |-> 0,
             conversations |-> [i \in {} |-> [user1_id |-> NoUser,
                                              user2_id |-> NoUser]]]

\* ------------------------------------------------------- Spec
\* db.create_all() on a new database file; no request has come in
InitStore ==
    /\ users = [i \in {} |-> NoRow]
    /\ now = 0
    /\ nextToken = 1
    /\ hist = [i \in Ids |-> NoHist]
    /\ last = NoResponse
    /\ th = [t \in Threads |-> Idle]
    /\ started = 0
    /\ dom = NoDomain

Init == InitStore /\ call = NoCall

\* the request whose Check step left l is served to its end
Finish(l, issues) ==
    LET o == Serve(users, hist, l)
    IN /\ Quiet
       /\ l.pc = "commit" /\ issues => CanIssue
       /\ l.pc = "commit" /\ l.op = "register" => CanInsert(users)
       /\ users' = o.users
       /\ hist' = o.hist
       /\ last' = [op |-> l.op, resp |-> o.loc.resp]
       /\ nextToken' = IF l.pc = "commit" /\ issues
                       THEN nextToken + 2 ELSE nextToken
       /\ UNCHANGED <<now, th, started, call, dom>>

\* POST /api/users/register/
RegisterUser(body) ==
    \E salt \in Salts :
        Finish(register_user_check(users, body, salt,
                                   nextToken, nextToken + 1, now), TRUE)

\* POST /api/users/login/
Login(body) ==
    Finish(login_check(users, body, nextToken, nextToken + 1, now), TRUE)

\* POST /api/users/logout/
Logout(header) == Finish(logout_check(users, header, now), FALSE)

\* POST /api/users/session/
RenewSession(header) ==
    Finish(renew_check(users, header, nextToken, nextToken + 1, now), TRUE)

\* POST /api/users/edit/
EditUser(header, body) ==
    \E salt \in Salts :
        Finish(edit_user_check(users, header, body, salt, now), FALSE)

\* DELETE /api/users/delete/
DeleteUser(header) == Finish(delete_user_check(users, header, now), FALSE)

\* the clock of datetime.datetime.now() moves on
Tick ==
    /\ Quiet
    /\ now < MaxTime
    /\ now' = now + 1
    /\ UNCHANGED <<users, nextToken, hist, last, th, started, call, dom>>

\* the client receives the response
Receive ==
    /\ ~Quiet
    /\ last' = NoResponse
    /\ UNCHANGED <<users, now, nextToken, hist, th, started, call, dom>>

Next ==
    \/ \E body \in RegisterBodies : RegisterUser(body)
    \/ \E body \in LoginBodies : Login(body)
    \/ \E header \in Headers : Logout(header)
    \/ \E header \in Headers : RenewSession(header)
    \/ \E header \in Headers :
          \E body \in EditBodiesFor(header) : EditUser(header, body)
    \/ \E header \in Headers : DeleteUser(header)
    \/ Tick
    \/ Receive

Spec == Init /\ [][Next]_vars

\* ------------------------------------------------------- ConcSpec
\* thread t takes a request: the Check step of its handler
Start(t, l, issues) ==
    /\ Quiet
    /\ th[t].pc = "idle"
    /\ started < MaxRequests
    /\ l.pc = "commit" /\ issues => CanIssue
    /\ started' = started + 1
    /\ nextToken' = IF l.pc = "commit" /\ issues
                    THEN nextToken + 2 ELSE nextToken
    /\ IF l.pc = "done"
       THEN last' = [op |-> l.op, resp |-> l.resp] /\ UNCHANGED th
       ELSE th' = [th EXCEPT ![t] = l] /\ UNCHANGED last
    /\ UNCHANGED <<users, hist, now, call, dom>>

StartRegisterUser(t, body) ==
    \E salt \in Salts :
        Start(t, register_user_check(users, body, salt,
                                     nextToken, nextToken + 1, now), TRUE)

StartLogin(t, body) ==
    Start(t, login_check(users, body, nextToken, nextToken + 1, now), TRUE)

StartLogout(t, header) == Start(t, logout_check(users, header, now), FALSE)

StartRenewSession(t, header) ==
    Start(t, renew_check(users, header, nextToken, nextToken + 1, now), TRUE)

StartEditUser(t, header, body) ==
    \E salt \in Salts :
        Start(t, edit_user_check(users, header, body, salt, now), FALSE)

StartDeleteUser(t, header) ==
    Start(t, delete_user_check(users, header, now), FALSE)

\* thread t reaches db.session.commit()
CommitStep(t) ==
    LET o == Commit(users, hist, th[t])
    IN /\ Quiet
       /\ th[t].pc = "commit"
       /\ th[t].op = "register" => CanInsert(users)
       /\ users' = o.users
       /\ hist' = o.hist
       /\ IF o.loc.pc = "done"
          THEN /\ last' = [op |-> o.loc.op, resp |-> o.loc.resp]
               /\ th' = [th EXCEPT ![t] = Idle]
          ELSE /\ th' = [th EXCEPT ![t] = o.loc]
               /\ UNCHANGED last
       /\ UNCHANGED <<now, nextToken, started, call, dom>>

\* thread t builds its response
RespondStep(t) ==
    /\ Quiet
    /\ th[t].pc = "respond"
    /\ last' = [op |-> th[t].op, resp |-> Respond(users, th[t]).resp]
    /\ hist' = Answered(hist, Respond(users, th[t]))
    /\ th' = [th EXCEPT ![t] = Idle]
    /\ UNCHANGED <<users, now, nextToken, started, call, dom>>

ConcNext ==
    \/ \E t \in Threads, body \in RegisterBodies : StartRegisterUser(t, body)
    \/ \E t \in Threads, body \in LoginBodies : StartLogin(t, body)
    \/ \E t \in Threads, header \in Headers : StartLogout(t, header)
    \/ \E t \in Threads, header \in Headers : StartRenewSession(t, header)
    \/ \E t \in Threads, header \in Headers :
          \E body \in EditBodiesFor(header) : StartEditUser(t, header, body)
    \/ \E t \in Threads, header \in Headers : StartDeleteUser(t, header)
    \/ \E t \in Threads : CommitStep(t)
    \/ \E t \in Threads : RespondStep(t)
    \/ Tick
    \/ Receive

ConcSpec == Init /\ [][ConcNext]_vars

\* ------------------------------------------------------- WriterSpec
\* the three routes that write username and email, on threads whose steps
\* interleave
\* the threads are alike: a new request goes to the idle thread of lowest
\* number
FirstIdle(t) ==
    /\ th[t].pc = "idle"
    /\ \A other \in Threads : other < t => th[other].pc # "idle"

\* the requests that bear on the two columns: registrations with every
\* username and email, edits of username and email, and the headers that
\* carry a stored session token or nothing
WriterRegisterBodies ==
    {body \in RegisterBodies : Missing(body) = {} /\ body.password = "pw1"}

WriterEditBodies == {body \in EditBodies : body.password = None}

WriterHeaders ==
    {NoHeader}
    \cup {Header(<<Word("Bearer"), Word(" "), Hex(users[i].session_token)>>) :
              i \in DOMAIN users}

WriterNext ==
    \/ \E t \in Threads, body \in WriterRegisterBodies :
          FirstIdle(t) /\ StartRegisterUser(t, body)
    \/ \E t \in Threads, header \in WriterHeaders :
          \E body \in EditBodiesFor(header) \cap WriterEditBodies :
              FirstIdle(t) /\ StartEditUser(t, header, body)
    \/ \E t \in Threads, header \in WriterHeaders :
          FirstIdle(t) /\ StartDeleteUser(t, header)
    \/ \E t \in Threads : CommitStep(t)
    \/ \E t \in Threads : RespondStep(t)
    \/ Receive

WriterSpec == Init /\ [][WriterNext]_vars

\* ------------------------------------------------------- PasswordSpec
\* the routes of Spec, one request at a time, with the requests that bear on
\* the password: registrations with every username and email, every login,
\* and edits of username and password
PasswordEditBodies == {body \in EditBodies : body.email = None}

PasswordNext ==
    \/ \E body \in WriterRegisterBodies : RegisterUser(body)
    \/ \E body \in LoginBodies : Login(body)
    \/ \E header \in Headers : Logout(header)
    \/ \E header \in Headers : RenewSession(header)
    \/ \E header \in Headers :
          \E body \in EditBodiesFor(header) \cap PasswordEditBodies :
              EditUser(header, body)
    \/ \E header \in Headers : DeleteUser(header)
    \/ Tick
    \/ Receive

PasswordSpec == Init /\ [][PasswordNext]_vars

\* ------------------------------------------------------- DomainSpec
\* what a domain route leaves behind: the tables and the bucket, the response
DomainOutcome(d, resp) == [dom |-> d, resp |-> resp]

\* Asset(image_data=image): Asset.create decodes the image and uploads it to
\* the S3 bucket; a failed upload is printed and otherwise ignored
AssetInit(d, uploaded) ==
    [d EXCEPT !.bucket = IF uploaded THEN @ + 1 ELSE @]

\* the body of create_post: whether title, item, status, text and location
\* are all there, and the image if there is one
PostBodies == [complete : BOOLEAN, image : {None, "img"}]

\* create_post: the first Asset is built and added to the session before the
\* token is looked at; only the commit at the end writes the session's rows
create_post(u, d, header, body, up1, up2, clock) ==
    IF ~body.complete
    THEN DomainOutcome(d, failure_response("Invalid body", 400))
    ELSE LET d1 == IF body.image # None THEN AssetInit(d, up1) ELSE d
             e == extract_token(header)
         IN IF ~e.ok THEN DomainOutcome(d1, e.resp)
            ELSE IF Authenticate(u, e.tok, clock) = NoUser
            THEN DomainOutcome(d1, failure_response("Invalid session token",
                                                    DEFAULT_FAILURE_CODE))
            ELSE LET d2 == IF body.image # None THEN AssetInit(d1, up2) ELSE d1
                 IN DomainOutcome(
                        [d2 EXCEPT !.assets = IF body.image # None
                                              THEN @ + 2 ELSE @,
                                   !.posts = @ + 1],
                        success_response("", NoToken, NoToken, 0,
                                         Authenticate(u, e.tok, clock), 201))

\* create_conversation: the other user is looked up first, then the token
create_conversation(u, d, header, username, clock) ==
    LET user2 == get_user_by_username(u, username)
        e == extract_token(header)
    IN IF user2 = NoUser
       THEN DomainOutcome(d, failure_response("User not found",
                                              DEFAULT_FAILURE_CODE))
       ELSE IF ~e.ok THEN DomainOutcome(d, e.resp)
       ELSE IF Authenticate(u, e.tok, clock) = NoUser
       THEN DomainOutcome(d, failure_response("Invalid session token",
                                              DEFAULT_FAILURE_CODE))
       ELSE DomainOutcome(
                [d EXCEPT !.conversations =
                    Insert(@, [user1_id |-> Authenticate(u, e.tok, clock),
                               user2_id |-> user2])],
                success_response("", NoToken, NoToken, 0,
                                 Authenticate(u, e.tok, clock), 201))

\* delete_conversation: the handler never reads the Authorization header
delete_conversation(u, d, header, convo_id, clock) ==
    IF convo_id \notin DOMAIN d.conversations
    THEN DomainOutcome(d, failure_response("Conversation not found",
                                           DEFAULT_FAILURE_CODE))
    ELSE DomainOutcome([d EXCEPT !.conversations = Delete(@, convo_id)],
                       success_response("", NoToken, NoToken, 0, NoUser,
                                        DEFAULT_SUCCESS_CODE))

ConvoIds == 1..MaxConvos

\* a domain route is served to its end
FinishDomain(op, o) ==
    /\ Quiet
    /\ o.dom.bucket <= MaxObjects
    /\ o.dom.assets <= MaxObjects
    /\ o.dom.posts <= MaxObjects
    /\ Cardinality(DOMAIN o.dom.conversations) <= MaxConvos
    /\ dom' = o.dom
    /\ last' = [op |-> op, resp |-> o.resp]
    /\ UNCHANGED <<users, now, nextToken, hist, th, started, call>>

\* POST /api/posts/
CreatePost(header, body, up1, up2) ==
    FinishDomain("create_post",
                 create_post(users, dom, header, body, up1, up2, now))

\* POST /api/users/convos/
CreateConversation(header, username) ==
    FinishDomain("create_conversation",
                 create_conversation(users, dom, header, username, now))

\* DELETE /api/users/convos/<convo_id>/
DeleteConversation(header, convo_id) ==
    FinishDomain("delete_conversation",
                 delete_conversation(users, dom, header, convo_id, now))

DomainNext ==
    \/ \E body \in WriterRegisterBodies : RegisterUser(body)
    \/ \E header \in Headers, body \in PostBodies, up1 \in BOOLEAN,
          up2 \in BOOLEAN : CreatePost(header, body, up1, up2)
    \/ \E header \in Headers, username \in Usernames :
          CreateConversation(header, username)
    \/ \E header \in Headers, convo_id \in ConvoIds :
          DeleteConversation(header, convo_id)
    \/ Tick
    \/ Receive

DomainSpec == Init /\ [][DomainNext]_vars

\* ------------------------------------------------------- ExtractSpec
\* what a client can put into the Authorization header: the scheme word,
\* another scheme word, a blank, the hex digits of a token
HeaderItems == {Word("Bearer"), Word("Basic"), Word(" "), Hex(NoToken), Hex(1)}

HeaderTexts == UNION {[1..n -> HeaderItems] : n \in 0..MaxLen}

ExtractHeaders == {NoHeader} \cup {Header(text) : text \in HeaderTexts}

\* a request with any Authorization header, or none, has reached a handler
ExtractInit ==
    /\ InitStore
    /\ call \in {[NoCall EXCEPT !.pc = "called", !.header = header] :
                   header \in ExtractHeaders}

\* success, response = extract_token(request)
ExtractToken ==
    /\ call.pc = "called"
    /\ call' = [call EXCEPT !.pc = "returned",
                            !.ret = extract_token(call.header)]
    /\ UNCHANGED <<users, now, nextToken, hist, last, th, started, dom>>

ExtractNext == ExtractToken

ExtractSpec == ExtractInit /\ [][ExtractNext]_vars

\* ======================================================= properties
\* every token value a client can hold, as a header string
TokenStrings == {TokStr(t) : t \in NoToken..MaxTokens}

\* the last response handed out new tokens
Issued(l) ==
    /\ l.op \in {"register", "login", "renew"}
    /\ l.resp.status \in {DEFAULT_SUCCESS_CODE, 201}
    /\ l.resp.session_token # NoToken

LoggedOut(l) ==
    l.op = "logout" /\ l.resp.message = "You have been logged out"

\* C1: verify_session_token(u, t) is true exactly when t is u's session
\* token and the clock is strictly before u's expiration; a session just
\* issued verifies at the instant of issue, and no session verifies at or
\* after its expiration.
C1_VerifySession ==
    /\ \A i \in DOMAIN users : \A tok \in TokenStrings :
          verify_session_token(users[i], tok, now)
          <=> /\ tok = TokStr(users[i].session_token)
              /\ now < users[i].session_expiration
    /\ \A i \in DOMAIN users :
          now >= users[i].session_expiration
          => Authenticate(users, TokStr(users[i].session_token), now) = NoUser
    /\ Issued(last) /\ last.resp.session_expiration = now + SESSION_DAYS
       => /\ last.resp.uid \in DOMAIN users
          /\ verify_session_token(users[last.resp.uid],
                                  TokStr(last.resp.session_token), now)

\* a session that no logout ended has reached its expiration instant, and
\* its own token does not verify
C1_Witness ==
    \E i \in DOMAIN users :
        /\ ~hist[i].logged_out
        /\ now = users[i].session_expiration
        /\ ~verify_session_token(users[i], TokStr(users[i].session_token), now)

\* C2: when a registration (tokens T1) is followed by a successful login of
\* the same user (tokens T2), T2 differs from T1, a request presenting T1's
\* session token is turned away and one presenting T2's is accepted.
C2_LoginSupersedes ==
    /\ [](\A i \in DOMAIN users : /\ hist[i].reg_token # NoToken
                                  /\ hist[i].reg_refresh # NoToken)
    /\ [][last'.op = "login" /\ last'.resp.status = DEFAULT_SUCCESS_CODE
          => LET i == last'.resp.uid
             IN /\ i \in DOMAIN users
                /\ last'.resp.session_token # hist[i].reg_token
                /\ last'.resp.refresh_token # hist[i].reg_refresh
                /\ Authenticate(users', TokStr(hist[i].reg_token), now')
                   = NoUser
                /\ Authenticate(users', TokStr(last'.resp.session_token), now')
                   = i]_vars

\* the only user registered and then logged in: the tokens of the
\* registration are turned away, those of the login accepted
C2_Witness ==
    /\ last.op = "login" /\ last.resp.status = DEFAULT_SUCCESS_CODE
    /\ Cardinality(DOMAIN users) = 1
    /\ nextToken = 5
    /\ last.resp.uid \in DOMAIN users
    /\ hist[last.resp.uid].reg_token = 1
    /\ Authenticate(users, TokStr(1), now) = NoUser
    /\ Authenticate(users, TokStr(last.resp.session_token), now) = last.resp.uid

\* the session tokens accepted for user i, the refresh tokens redeemable for i
AcceptedFor(u, i, clock) ==
    {tok \in TokenStrings : Authenticate(u, tok, clock) = i}
RedeemableFor(u, i) ==
    {tok \in TokenStrings : get_user_by_refresh_token(u, tok) = i}

\* C3: every user has one triple: at most one session token is accepted and
\* at most one refresh token can be redeemed for the user, and an issue of
\* new tokens to the user leaves the tokens the user had before rejected.
C3_OneTriple ==
    /\ [](\A i \in DOMAIN users :
            /\ AcceptedFor(users, i, now) \subseteq {TokStr(users[i].session_token)}
            /\ RedeemableFor(users, i) = {TokStr(users[i].refresh_token)}
            /\ \A t \in 1..(nextToken - 1) :
                  t \notin {users[j].session_token : j \in DOMAIN users}
                  => Authenticate(users, TokStr(t), now) = NoUser)
    /\ [][Issued(last') /\ nextToken' # nextToken
          => \A i \in DOMAIN users :
                last'.resp.uid = i
                => /\ Authenticate(users', TokStr(users[i].session_token), now')
                      = NoUser
                   /\ get_user_by_refresh_token(
                          users', TokStr(users[i].refresh_token)) = NoUser]_vars

\* a user holds a second triple; the first one is of no use any more
C3_Witness ==
    \E i \in DOMAIN users :
        /\ users[i].session_token > 2
        /\ AcceptedFor(users, i, now) = {TokStr(users[i].session_token)}
        /\ \A t \in 1..2 : /\ Authenticate(users, TokStr(t), now) = NoUser
                            /\ get_user_by_refresh_token(users, TokStr(t)) = NoUser

\* C4: registering a username that a user already holds answers
\* 400 User already exists, creates no user and leaves every stored row
\* (so the first user's tokens and expiration) as it was.
C4_DuplicateUsername ==
    [][last'.op = "register" => \A body \in RegisterBodies :
          (/\ Missing(body) = {}
           /\ get_user_by_username(users, body.username) # NoUser
           /\ RegisterUser(body))
          => /\ last'.resp = failure_response("User already exists", 400)
             /\ users' = users
             /\ \A tok \in TokenStrings :
                   Authenticate(users', tok, now') = Authenticate(users, tok, now)]_vars

\* a second registration was refused while the first user's session is valid
C4_Witness ==
    /\ last.op = "register"
    /\ last.resp = failure_response("User already exists", 400)
    /\ \E i \in DOMAIN users :
          Authenticate(users, TokStr(users[i].session_token), now) = i

\* C5: a registration whose email is taken, with a username that is free, is
\* answered 400 and creates no user.
C5_DuplicateEmail ==
    [][last'.op = "register" => \A body \in RegisterBodies :
          (/\ Missing(body) = {}
           /\ get_user_by_username(users, body.username) = NoUser
           /\ \E i \in DOMAIN users : users[i].email = body.email
           /\ RegisterUser(body))
          => /\ last'.resp.status = 400
             /\ users' = users]_vars

\* C6: renew with a token that is no user's refresh token answers
\* 400 Invalid refresh token and leaves every stored row as it was.
C6_UnknownRefreshToken ==
    [][last'.op = "renew" => \A header \in Headers :
          (/\ extract_token(header).ok
           /\ \A i \in DOMAIN users :
                 TokStr(users[i].refresh_token) # extract_token(header).tok
           /\ RenewSession(header))
          => /\ last'.resp = failure_response("Invalid refresh token", 400)
             /\ users' = users
             /\ hist' = hist]_vars

\* a renewal was refused while users are stored
C6_Witness ==
    /\ last.op = "renew"
    /\ last.resp = failure_response("Invalid refresh token", 400)
    /\ DOMAIN users # {}

\* the renewal of user i with its stored refresh token, served in this state
RenewalOf(i) ==
    Serve(users, hist,
          renew_check(users,
                      Header(<<Word("Bearer"), Word(" "),
                               Hex(users[i].refresh_token)>>),
                      nextToken, nextToken + 1, now))

\* C7: a successful logout leaves the session token it presented rejected
\* and the refresh token unchanged; a renewal with that refresh token while
\* the user is logged out succeeds and its new session token is accepted.
C7_RefreshAfterLogout ==
    /\ [][LoggedOut(last') => \A header \in Headers :
            Logout(header)
            => LET tok == extract_token(header).tok
                   i == Authenticate(users, tok, now)
               IN /\ i # NoUser /\ i \in DOMAIN users'
                  /\ ~verify_session_token(users'[i], tok, now')
                  /\ Authenticate(users', tok, now') = NoUser
                  /\ users'[i].refresh_token = users[i].refresh_token
                  /\ get_user_by_refresh_token(
                         users', TokStr(users[i].refresh_token)) = i]_vars
    /\ [][last'.op = "renew" => \A header \in Headers : \A i \in DOMAIN users :
            (/\ hist[i].logged_out
             /\ extract_token(header).ok
             /\ extract_token(header).tok = TokStr(users[i].refresh_token)
             /\ RenewSession(header))
            => /\ last'.resp.status = DEFAULT_SUCCESS_CODE
               /\ last'.resp.session_token # users[i].session_token
               /\ Authenticate(users', TokStr(last'.resp.session_token), now')
                  = i]_vars

\* a user has logged out: the old session token is rejected, and the renewal
\* with the refresh token gives a session token that is accepted
C7_Witness ==
    /\ Quiet
    /\ CanIssue
    /\ \E i \in DOMAIN users :
          /\ hist[i].logged_out
          /\ Authenticate(users, TokStr(users[i].session_token), now) = NoUser
          /\ LET o == RenewalOf(i)
             IN /\ o.loc.resp.status = DEFAULT_SUCCESS_CODE
                /\ Authenticate(o.users, TokStr(o.loc.resp.session_token), now)
                   = i

UniqueUsernames ==
    \A i \in DOMAIN users, j \in DOMAIN users :
        users[i].username = users[j].username => i = j

\* C9: of two concurrent registrations of one username exactly one creates
\* the user; the one that finds the username taken at its insert is answered
\* 400 User already exists, and no two users ever share the username.
C9_RegistrationRace ==
    /\ []UniqueUsernames
    /\ [][\A t \in Threads :
            (/\ th[t].op = "register" /\ th[t].pc = "commit"
             /\ get_user_by_username(users, th[t].obj.username) # NoUser
             /\ CommitStep(t))
            => /\ last'.resp = failure_response("User already exists", 400)
               /\ users' = users]_vars

\* C10: the stored session_expiration of every user is the one written for
\* the stored session_token.
C10_AtomicIssue ==
    \A i \in DOMAIN users : hist[i].exp_token = users[i].session_token

\* the header text starts with the scheme word; all of a text is blanks
StartsWithBearer(text) == text # <<>> /\ Head(text) = Word("Bearer")
Blank(text) == \A k \in 1..Len(text) : text[k] = Word(" ")

\* C12: extract_token turns away, as Invalid Authorization header, a header
\* whose text after the scheme word is empty or all blanks; an absent header
\* is turned away as Missing Authorization header, which is another outcome.
C12_MalformedHeader ==
    call.pc = "returned"
    => /\ (/\ call.header.present
            /\ StartsWithBearer(call.header.text)
            /\ Blank(Tail(call.header.text)))
           => /\ ~call.ret.ok
              /\ call.ret.resp = BareString("Invalid Authorization header")
              /\ call.ret.resp # extract_token(NoHeader).resp
       /\ ~call.header.present
           => /\ ~call.ret.ok
              /\ call.ret.resp = BareString("Missing Authorization header")

\* extract_token has returned for the header "Bearer   "
C12_Witness ==
    /\ call.pc = "returned"
    /\ call.header = Header(<<Word("Bearer"), Word(" "), Word(" "), Word(" ")>>)
    /\ ~call.ret.ok
    /\ call.ret.resp.error = "Invalid Authorization header"

\* a header of the usual form: the scheme word, a blank, and a token without
\* blanks
WellFormed(text) ==
    /\ Len(text) > 2
    /\ StartsWithBearer(text)
    /\ text[2] = Word(" ")
    /\ \A k \in 3..Len(text) : text[k] # Word(" ")

\* C13: extract_token yields no token for a header that is present, not
\* empty and does not start with the scheme word, and for a header of the
\* usual form it yields exactly the text after the prefix.
C13_RequiresScheme ==
    call.pc = "returned" /\ call.header.present
    => /\ (call.header.text # <<>> /\ ~StartsWithBearer(call.header.text))
          => ~call.ret.ok
       /\ WellFormed(call.header.text)
          => /\ call.ret.ok
             /\ call.ret.tok = SubSeq(call.header.text, 3, Len(call.header.text))

\* the routes of the model that answer only to a valid session token
ProtectedOps == {"logout", "edit", "delete"}

\* the usual header for token t
Bearer(t) == Header(<<Word("Bearer"), Word(" "), Hex(t)>>)

\* an edit_user body that changes nothing
NoEdit == [name |-> None, username |-> None, email |-> None, password |-> None]

\* what route op answers, before any commit, to a request with this header
ProtectedCheck(op, header) ==
    IF op = "logout" THEN logout_check(users, header, now)
    ELSE IF op = "edit" THEN edit_user_check(users, header, NoEdit, 1, now)
    ELSE delete_user_check(users, header, now)

\* C11: every protected route gives one and the same answer, 404 Invalid
\* session token, to a token of no user and to a token of a user whose
\* session has expired: the answer does not tell the two apart.
C11_UniformRejection ==
    \A t \in Presentable :
        Authenticate(users, TokStr(t), now) = NoUser
        => \A op \in ProtectedOps :
              ProtectedCheck(op, Bearer(t))
              = Done(op, failure_response("Invalid session token",
                                          DEFAULT_FAILURE_CODE))

\* a protected route has turned a request away while one stored session
\* token has expired and another token that was issued is no user's
C11_Witness ==
    /\ last.op \in ProtectedOps
    /\ last.resp = failure_response("Invalid session token", DEFAULT_FAILURE_CODE)
    /\ \E i \in DOMAIN users :
          /\ now >= users[i].session_expiration
          /\ ProtectedCheck(last.op, Bearer(users[i].session_token)).resp
             = last.resp
    /\ \E t \in 1..(nextToken - 1) :
          /\ get_user_by_session_token(users, TokStr(t)) = NoUser
          /\ ProtectedCheck(last.op, Bearer(t)).resp = last.resp

\* C14: a logout whose session token is missing, invalid or expired is
\* answered 404 Invalid session token and changes no stored row.
C14_LogoutRejection ==
    [][last'.op = "logout" => \A header \in Headers :
          (/\ \/ ~extract_token(header).ok
              \/ Authenticate(users, extract_token(header).tok, now) = NoUser
           /\ Logout(header))
          => /\ last'.resp = failure_response("Invalid session token",
                                              DEFAULT_FAILURE_CODE)
             /\ users' = users]_vars

\* C15: every response that carries an error message carries an error status.
C15_StructuredErrors ==
    last.resp.error # "" => last.resp.status >= 400

\* C18: a refresh token presented as a session token is turned away by
\* every protected route, and a session token presented to renew is
\* answered 400 Invalid refresh token.
C18_TokenRoles ==
    \A i \in DOMAIN users :
        /\ \A op \in ProtectedOps :
              ProtectedCheck(op, Bearer(users[i].refresh_token))
              = Done(op, failure_response("Invalid session token",
                                          DEFAULT_FAILURE_CODE))
        /\ renew_check(users, Bearer(users[i].session_token),
                       nextToken, nextToken + 1, now)
           = Done("renew", failure_response("Invalid refresh token", 400))

\* renew has refused the session token of a user whose session is valid
C18_Witness ==
    /\ last.op = "renew"
    /\ last.resp = failure_response("Invalid refresh token", 400)
    /\ \E i \in DOMAIN users :
          /\ Authenticate(users, TokStr(users[i].session_token), now) = i
          /\ renew_check(users, Bearer(users[i].session_token),
                         nextToken, nextToken + 1, now).resp = last.resp
          /\ Authenticate(users, TokStr(users[i].refresh_token), now) = NoUser

\* C19: a successful logout writes session_expiration = now into the row of
\* its user and nothing else: the session is expired at once and stays so,
\* both tokens and the password digest of the user are as before, and so is
\* every other row.
C19_LogoutFrame ==
    [][LoggedOut(last') => \A header \in Headers :
          Logout(header)
          => LET tok == extract_token(header).tok
                 i == Authenticate(users, tok, now)
             IN /\ i \in DOMAIN users
                /\ DOMAIN users' = DOMAIN users
                /\ users'[i].session_expiration = now
                /\ \A clock \in now'..MaxTime :
                      ~verify_session_token(users'[i], tok, clock)
                /\ users'[i].session_token = users[i].session_token
                /\ users'[i].refresh_token = users[i].refresh_token
                /\ users'[i].password_digest = users[i].password_digest
                /\ \A j \in DOMAIN users \ {i} : users'[j] = users[j]]_vars

\* one user has logged out while another user's session goes on
C19_Witness ==
    /\ LoggedOut(last)
    /\ last.resp.uid \in DOMAIN users
    /\ users[last.resp.uid].session_expiration = now
    /\ \E j \in DOMAIN users \ {last.resp.uid} :
          Authenticate(users, TokStr(users[j].session_token), now) = j

\* the tokens stored in the table
TokensOf(u) == {u[i].session_token : i \in DOMAIN u}
               \cup {u[i].refresh_token : i \in DOMAIN u}

\* C20: renew with the refresh token of a user whose session is still valid
\* answers 200 with a new pair; the session token that was valid and the
\* refresh token that was redeemed are turned away afterwards, and no token
\* that has left the table comes back into it.
C20_EarlyRenewal ==
    /\ [][last'.op = "renew" => \A header \in Headers : \A i \in DOMAIN users :
            (/\ extract_token(header).ok
             /\ extract_token(header).tok = TokStr(users[i].refresh_token)
             /\ Authenticate(users, TokStr(users[i].session_token), now) = i
             /\ RenewSession(header))
            => /\ last'.resp.status = DEFAULT_SUCCESS_CODE
               /\ last'.resp.uid = i
               /\ last'.resp.session_token \notin TokensOf(users)
               /\ last'.resp.refresh_token \notin TokensOf(users)
               /\ Authenticate(users', TokStr(last'.resp.session_token), now') = i
               /\ Authenticate(users', TokStr(users[i].session_token), now')
                  = NoUser
               /\ get_user_by_refresh_token(
                      users', TokStr(users[i].refresh_token)) = NoUser]_vars
    /\ [][TokensOf(users') \subseteq
            TokensOf(users) \cup {nextToken, nextToken + 1}]_vars
    /\ [][nextToken' >= nextToken]_vars
    /\ [](TokensOf(users) \subseteq 1..(nextToken - 1))

\* a user's session is valid, and the renewal with the user's refresh token
\* succeeds and leaves both old tokens of no use
C20_Witness ==
    /\ Quiet
    /\ CanIssue
    /\ \E i \in DOMAIN users :
          /\ Authenticate(users, TokStr(users[i].session_token), now) = i
          /\ LET o == RenewalOf(i)
             IN /\ o.loc.resp.status = DEFAULT_SUCCESS_CODE
                /\ Authenticate(o.users, TokStr(users[i].session_token), now)
                   = NoUser
                /\ get_user_by_refresh_token(
                       o.users, TokStr(users[i].refresh_token)) = NoUser
                /\ Authenticate(o.users, TokStr(o.loc.resp.session_token), now)
                   = i

\* no two stored users share an email
UniqueEmails ==
    \A i \in DOMAIN users, j \in DOMAIN users :
        users[i].email = users[j].email => i = j

\* C17: under every interleaving of register, edit_user and delete_user no
\* two stored users share a username and no two share an email.
C17_UniqueUsers == UniqueUsernames /\ UniqueEmails

\* two users are stored, and a commit that would have given one of them the
\* username or the email of the other was refused by the table
C17_Witness ==
    /\ Cardinality(DOMAIN users) = 2
    /\ last.op \in {"register", "edit"}
    /\ last.resp = Unhandled("IntegrityError")

\* the request carries no token that a protected route would accept
Rejected(header) ==
    \/ ~extract_token(header).ok
    \/ Authenticate(users, extract_token(header).tok, now) = NoUser

\* C16: a request to create_post or delete_conversation that carries no
\* accepted session token leaves the tables of posts, assets and
\* conversations and the bucket of images as they were.
C16_AuthBeforeDomain ==
    [][last'.op \in {"create_post", "delete_conversation"}
       => \A header \in Headers :
             Rejected(header)
             => /\ \A body \in PostBodies, up1 \in BOOLEAN, up2 \in BOOLEAN :
                      CreatePost(header, body, up1, up2) => dom' = dom
                /\ \A convo_id \in ConvoIds :
                      DeleteConversation(header, convo_id) => dom' = dom]_vars

\* the session states of a stored user: Active while the clock is before the
\* stored expiration, Expired from then on
Active(u, i, clock) == i \in DOMAIN u /\ clock < u[i].session_expiration
Expired(u, i, clock) == i \in DOMAIN u /\ clock >= u[i].session_expiration

\* C21: a step that takes a user from Expired to Active is a renew, and then
\* every request that makes the step carries that user's refresh token, or
\* a login, and then every request that makes it carries that user's username
\* and password; logout, edit, delete, the requests of other users and the
\* passage of time never do it.
C21_OnlyRenewal ==
    [][\A i \in DOMAIN users :
          Expired(users, i, now) /\ Active(users', i, now')
          => \/ /\ last'.op = "renew"
                /\ last'.resp.status = DEFAULT_SUCCESS_CODE
                /\ last'.resp.uid = i
                /\ \A header \in Headers :
                      RenewSession(header)
                      => extract_token(header).tok
                         = TokStr(users[i].refresh_token)
             \/ /\ last'.op = "login"
                /\ last'.resp.uid = i
                /\ \A body \in LoginBodies :
                      Login(body) => /\ body.username = users[i].username
                                     /\ body.password = hist[i].password]_vars

\* a session that no logout ended has run out with the clock, and the
\* renewal with the user's refresh token makes the user's session Active
C21_Witness ==
    /\ Quiet
    /\ CanIssue
    /\ \E i \in DOMAIN users :
          /\ ~hist[i].logged_out
          /\ now > 0
          /\ Expired(users, i, now)
          /\ Active(RenewalOf(i).users, i, now)

\* C22: a registration, a successful login and a successful renew store, for
\* their user, two tokens of two generator calls that no row held before,
\* and the expiration now + SESSION_DAYS, and answer with them; the session
\* token verifies from the issue up to, and not at, the expiration, and the
\* expiration of a user stays as it is while the session token stays and the
\* user does not log out.
C22_Issue ==
    /\ [][Issued(last')
          => LET i == last'.resp.uid
             IN /\ i \in DOMAIN users'
                /\ nextToken' = nextToken + 2
                /\ users'[i].session_token = nextToken
                /\ users'[i].refresh_token = nextToken + 1
                /\ users'[i].session_token # users'[i].refresh_token
                /\ {users'[i].session_token, users'[i].refresh_token}
                   \cap TokensOf(users) = {}
                /\ users'[i].session_expiration = now + SESSION_DAYS
                /\ last'.resp = TokenResponse(users'[i], i, last'.resp.status)
                /\ \A clock \in now..(now + SESSION_DAYS - 1) :
                      verify_session_token(
                          users'[i], TokStr(users'[i].session_token), clock)
                /\ ~verify_session_token(
                       users'[i], TokStr(users'[i].session_token),
                       now + SESSION_DAYS)]_vars
    /\ [][\A i \in DOMAIN users \cap DOMAIN users' :
            (/\ users'[i].session_token = users[i].session_token
             /\ ~(LoggedOut(last') /\ last'.resp.uid = i))
            => users'[i].session_expiration = users[i].session_expiration]_vars
    /\ [][last'.op \in {"register", "login", "renew"}
          /\ last'.resp.status \in {DEFAULT_SUCCESS_CODE, 201}
          /\ last'.resp.error = ""
          => Issued(last')]_vars

\* a renewal on a later day has answered: its user's tokens are two, and the
\* expiration is a day after the renewal
C22_Witness ==
    /\ last.op = "renew"
    /\ Issued(last)
    /\ now > 0
    /\ last.resp.uid \in DOMAIN users
    /\ last.resp.session_token # last.resp.refresh_token
    /\ last.resp.session_expiration = now + SESSION_DAYS
    /\ users[last.resp.uid].session_expiration = now + SESSION_DAYS
    /\ verify_session_token(users[last.resp.uid],
                            TokStr(last.resp.session_token), now)

\* C23: the password digest of a stored user changes only in a step that is
\* a successful edit_user of that user; no edit_user request makes the step
\* unless it carries an accepted session token of the user and a password,
\* and the new digest is the one of the password then set. Login, logout,
\* renew, the requests of other users and every request that is turned away
\* or fails leave every stored digest as it was.
C23_PasswordFrame ==
    [][\A i \in DOMAIN users \cap DOMAIN users' :
          users'[i].password_digest # users[i].password_digest
          => /\ last'.op = "edit"
             /\ last'.resp.status = DEFAULT_SUCCESS_CODE
             /\ last'.resp.error = ""
             /\ last'.resp.uid = i
             /\ hist'[i].password \in Passwords
             /\ verify_password(users'[i], hist'[i].password)
             /\ \A header \in Headers :
                   \A body \in EditBodiesFor(header) \cap PasswordEditBodies :
                      (\/ body.password = None
                       \/ ~extract_token(header).ok
                       \/ Authenticate(users, extract_token(header).tok, now)
                          # i)
                      => ~EditUser(header, body)]_vars

\* the change of password of user i, served in this state
PasswordChangeOf(i, password) ==
    Serve(users, hist,
          edit_user_check(users, Bearer(users[i].session_token),
                          [NoEdit EXCEPT !.password = password], 1, now))

\* two users are stored; one changes the password from pw1 to pw2, and the
\* digest of the other is as before
C23_Witness ==
    /\ Quiet
    /\ \E i \in DOMAIN users : \E j \in DOMAIN users \ {i} :
          /\ verify_password(users[i], "pw1")
          /\ LET o == PasswordChangeOf(i, "pw2")
             IN /\ o.loc.resp.status = DEFAULT_SUCCESS_CODE
                /\ o.loc.resp.error = ""
                /\ verify_password(o.users[i], "pw2")
                /\ ~verify_password(o.users[i], "pw1")
                /\ o.users[j].password_digest = users[j].password_digest

\* C24: the commit of a logout that presented session token T writes the
\* expiration of its user only while T is still the stored session token:
\* when a login or a renew of the user has stored a new session token in
\* between, the expiration written for the new token stays as it is.
C24_LogoutScope ==
    [][\A t \in Threads :
          (/\ th[t].op = "logout" /\ th[t].pc = "commit"
           /\ th[t].uid \in DOMAIN users
           /\ th[t].tok # TokStr(users[th[t].uid].session_token)
           /\ CommitStep(t))
          => /\ th[t].uid \in DOMAIN users'
             /\ users'[th[t].uid].session_expiration
                = users[th[t].uid].session_expiration]_vars

\* C25: of two renew requests in flight with one and the same refresh token,
\* once the commit of one has redeemed the token the commit of the other
\* redeems nothing: it stores no tokens and its request gets no success
\* response.
C25_SingleRedemption ==
    [][\A t \in Threads : \A s \in Threads \ {t} :
          (/\ th[s].op = "renew" /\ th[s].pc = "respond"
           /\ th[t].op = "renew" /\ th[t].pc = "commit"
           /\ th[t].tok = th[s].tok
           /\ CommitStep(t))
          => /\ th'[t].pc # "respond"
             /\ users' = users]_vars

\* what a route answers to a session token it does not accept
InvalidSessionToken ==
    failure_response("Invalid session token", DEFAULT_FAILURE_CODE)

\* C26: a delete_user request with an accepted session token of user i
\* removes the row of i; from then on every route that asks for a session
\* token turns the session token of i away, renew answers the refresh token
\* of i with 400 Invalid refresh token, login with the username of i and any
\* password answers 400 Invalid credentials, and the rows of the other users
\* are as before. A token that is in no row is accepted by no route, and no
\* token comes back into the table.
C26_DeletedUser ==
    /\ [][last'.op = "delete" => \A header \in Headers :
            (/\ extract_token(header).ok
             /\ Authenticate(users, extract_token(header).tok, now) # NoUser
             /\ DeleteUser(header))
            => LET i == Authenticate(users, extract_token(header).tok, now)
                   session == Bearer(users[i].session_token)
                   refresh == Bearer(users[i].refresh_token)
               IN /\ i \notin DOMAIN users'
                  /\ \A j \in DOMAIN users \ {i} :
                        j \in DOMAIN users' /\ users'[j] = users[j]
                  /\ logout_check(users', session, now')
                     = Done("logout", InvalidSessionToken)
                  /\ edit_user_check(users', session, NoEdit, 1, now')
                     = Done("edit", InvalidSessionToken)
                  /\ delete_user_check(users', session, now')
                     = Done("delete", InvalidSessionToken)
                  /\ \A body \in PostBodies :
                        body.complete
                        => create_post(users', dom', session, body,
                                       FALSE, FALSE, now')
                           = DomainOutcome(dom', InvalidSessionToken)
                  /\ \A username \in Usernames :
                        LET o == create_conversation(users', dom', session,
                                                     username, now')
                        IN /\ o.dom = dom'
                           /\ o.resp.status = DEFAULT_FAILURE_CODE
                           /\ get_user_by_username(users', username) # NoUser
                              => o.resp = InvalidSessionToken
                  /\ renew_check(users', refresh,
                                 nextToken', nextToken' + 1, now')
                     = Done("renew",
                            failure_response("Invalid refresh token", 400))
                  /\ \A password \in Passwords :
                        login_check(users',
                                    [username |-> users[i].username,
                                     password |-> password],
                                    nextToken', nextToken' + 1, now')
                        = Done("login",
                               failure_response("Invalid credentials", 400))]_vars
    /\ [][\A t \in 1..(nextToken' - 1) :
            t \notin TokensOf(users')
            => /\ Authenticate(users', TokStr(t), now') = NoUser
               /\ get_user_by_refresh_token(users', TokStr(t)) = NoUser]_vars
    /\ [][TokensOf(users') \cap (1..(nextToken - 1)) \subseteq TokensOf(users)]_vars

\* the delete_user request of user i, served in this state
DeletionOf(i) ==
    Serve(users, hist,
          delete_user_check(users, Bearer(users[i].session_token), now))

\* two users have valid sessions; the deletion of the one with the lower id
\* leaves the other, and the deleted user's tokens and username find no row
C26_Witness ==
    /\ Quiet
    /\ \E i \in DOMAIN users : \E j \in DOMAIN users :
          /\ i < j
          /\ Authenticate(users, TokStr(users[i].session_token), now) = i
          /\ Authenticate(users, TokStr(users[j].session_token), now) = j
          /\ LET o == DeletionOf(i)
             IN /\ DOMAIN o.users = DOMAIN users \ {i}
                /\ Authenticate(o.users, TokStr(users[i].session_token), now)
                   = NoUser
                /\ get_user_by_refresh_token(
                       o.users, TokStr(users[i].refresh_token)) = NoUser
                /\ get_user_by_username(o.users, users[i].username) = NoUser
                /\ Authenticate(o.users, TokStr(users[j].session_token), now)
                   = j
====
